---- MODULE Spec2Model ----
(***************************************************************************)
(* Model of armv7l.py: the operand model (Imm, Shift, Mem), the           *)
(* instruction record Instr and its rendering, the instruction-stream     *)
(* builder Asm, and the string-printer generator print_asm.               *)
(*                                                                         *)
(* Text is modelled character by character: a Python str is a sequence of *)
(* one-character strings, so concatenation, rstrip, isspace and endswith  *)
(* are computed as the code computes them.                                 *)
(***************************************************************************)
EXTENDS Integers, Sequences, FiniteSets, TLC

\* ---------------------------------------------------------------- bounds
\* Longest line list the builder model grows to.
MaxLines == 2
\* Longest text handed to print_asm.
MaxText == 3

\* ------------------------------------------------------------ vocabulary
\* class Reg: the register tags.
Reg == {"r0", "r1", "r2", "r3", "r4", "r5", "r6", "r7", "r8", "r9", "r10", "r11", "r12", "sp", "lr", "pc"}

\* class Ops: the operation tags.
Ops == {"MOV", "MVN", "ADD", "ADC", "SUB", "SBC", "RSB", "RSC", "MUL", "MLA", "AND", "ORR", "EOR", "BIC", "LSL", "LSR", "ASR", "ROR", "RRX",
        "LDR", "STR", "LDRB", "STRB", "LDRH", "LDRSH", "LDM", "STM", "SVC", "NOP", "SWP", "B", "BL", "BX", "PUSH", "POP"}

\* class Cond: the condition tags.
Cond == {"AL", "EQ", "NE", "CS", "CC", "MI", "PL", "VS", "VC", "HI", "LS", "GE", "LT", "GT", "LE"}

\* Reg.__str__: self.name.upper().
RegStr(r) ==
  CASE r = "r0" -> <<"R", "0">>
    [] r = "r1" -> <<"R", "1">>
    [] r = "r2" -> <<"R", "2">>
    [] r = "r3" -> <<"R", "3">>
    [] r = "r4" -> <<"R", "4">>
    [] r = "r5" -> <<"R", "5">>
    [] r = "r6" -> <<"R", "6">>
    [] r = "r7" -> <<"R", "7">>
    [] r = "r8" -> <<"R", "8">>
    [] r = "r9" -> <<"R", "9">>
    [] r = "r10" -> <<"R", "1", "0">>
    [] r = "r11" -> <<"R", "1", "1">>
    [] r = "r12" -> <<"R", "1", "2">>
    [] r = "sp" -> <<"S", "P">>
    [] r = "lr" -> <<"L", "R">>
    [] r = "pc" -> <<"P", "C">>

\* Ops.__str__: self.name.
OpsStr(op) ==
  CASE op = "MOV" -> <<"M", "O", "V">>
    [] op = "MVN" -> <<"M", "V", "N">>
    [] op = "ADD" -> <<"A", "D", "D">>
    [] op = "ADC" -> <<"A", "D", "C">>
    [] op = "SUB" -> <<"S", "U", "B">>
    [] op = "SBC" -> <<"S", "B", "C">>
    [] op = "RSB" -> <<"R", "S", "B">>
    [] op = "RSC" -> <<"R", "S", "C">>
    [] op = "MUL" -> <<"M", "U", "L">>
    [] op = "MLA" -> <<"M", "L", "A">>
    [] op = "AND" -> <<"A", "N", "D">>
    [] op = "ORR" -> <<"O", "R", "R">>
    [] op = "EOR" -> <<"E", "O", "R">>
    [] op = "BIC" -> <<"B", "I", "C">>
    [] op = "LSL" -> <<"L", "S", "L">>
    [] op = "LSR" -> <<"L", "S", "R">>
    [] op = "ASR" -> <<"A", "S", "R">>
    [] op = "ROR" -> <<"R", "O", "R">>
    [] op = "RRX" -> <<"R", "R", "X">>
    [] op = "LDR" -> <<"L", "D", "R">>
    [] op = "STR" -> <<"S", "T", "R">>
    [] op = "LDRB" -> <<"L", "D", "R", "B">>
    [] op = "STRB" -> <<"S", "T", "R", "B">>
    [] op = "LDRH" -> <<"L", "D", "R", "H">>
    [] op = "LDRSH" -> <<"L", "D", "R", "S", "H">>
    [] op = "LDM" -> <<"L", "D", "M">>
    [] op = "STM" -> <<"S", "T", "M">>
    [] op = "SVC" -> <<"S", "V", "C">>
    [] op = "NOP" -> <<"N", "O", "P">>
    [] op = "SWP" -> <<"S", "W", "P">>
    [] op = "B" -> <<"B">>
    [] op = "BL" -> <<"B", "L">>
    [] op = "BX" -> <<"B", "X">>
    [] op = "PUSH" -> <<"P", "U", "S", "H">>
    [] op = "POP" -> <<"P", "O", "P">>

\* Cond.__str__: self.value; AL is the empty string.
CondStr(c) ==
  CASE c = "AL" -> <<>>
    [] c = "EQ" -> <<"E", "Q">>
    [] c = "NE" -> <<"N", "E">>
    [] c = "CS" -> <<"C", "S">>
    [] c = "CC" -> <<"C", "C">>
    [] c = "MI" -> <<"M", "I">>
    [] c = "PL" -> <<"P", "L">>
    [] c = "VS" -> <<"V", "S">>
    [] c = "VC" -> <<"V", "C">>
    [] c = "HI" -> <<"H", "I">>
    [] c = "LS" -> <<"L", "S">>
    [] c = "GE" -> <<"G", "E">>
    [] c = "LT" -> <<"L", "T">>
    [] c = "GT" -> <<"G", "T">>
    [] c = "LE" -> <<"L", "E">>

\* ------------------------------------------------------------------ text
\* str.isspace() / the characters str.rstrip() strips, over the model's alphabet.
WhiteSpace == {" ", "\t", "\n", "\r"}

\* Decimal digits of str(int).
DigitChar(d) == <<"0", "1", "2", "3", "4", "5", "6", "7", "8", "9">>[d + 1]

RECURSIVE NatStr(_)
NatStr(n) == IF n < 10 THEN <<DigitChar(n)>> ELSE NatStr(n \div 10) \o <<DigitChar(n % 10)>>

\* str(n) / f"{n}" of a Python int.
IntStr(n) == IF n < 0 THEN <<"-">> \o NatStr(-n) ELSE NatStr(n)

\* sep.join(parts) for a sequence of texts.
RECURSIVE Join(_, _)
Join(sep, parts) ==
  IF Len(parts) = 0 THEN <<>>
  ELSE IF Len(parts) = 1 THEN parts[1]
  ELSE parts[1] \o sep \o Join(sep, Tail(parts))

\* str.rstrip(): drop the trailing whitespace characters.
RECURSIVE RStrip(_)
RStrip(s) ==
  IF Len(s) > 0 /\ s[Len(s)] \in WhiteSpace THEN RStrip(SubSeq(s, 1, Len(s) - 1)) ELSE s

\* str.endswith("\n").
EndsWithNewline(s) == Len(s) > 0 /\ s[Len(s)] = "\n"

\* ------------------------------------------------------------- operands
\* Python's None.
None == [t |-> "none"]

\* A str value (branch target, pre-formatted register list, comment).
StrVal(s) == [t |-> "str", s |-> s]

\* A Reg value as an operand.
RegVal(r) == [t |-> "reg", r |-> r]

\* A plain Python int (an offset, or an ImmLike not yet wrapped).
IntVal(v) == [t |-> "int", v |-> v]

\* class Imm and Imm.__str__.
Imm(v) == [t |-> "imm", value |-> v]
ImmStr(i) == <<"#">> \o IntStr(i.value)

\* imm(x): x if it is an Imm already, else Imm(int(x)).
imm(x) == IF x.t = "imm" THEN x ELSE Imm(x.v)

\* class Shift and Shift.__str__.
Shift(kind, amount) == [t |-> "shift", kind |-> kind, amount |-> amount]
ShiftStr(sh) == sh.kind \o <<" ", "#">> \o IntStr(sh.amount)

\* lsl / lsr / asr / ror.
lsl(amount) == Shift(<<"L", "S", "L">>, amount)
lsr(amount) == Shift(<<"L", "S", "R">>, amount)
asr(amount) == Shift(<<"A", "S", "R">>, amount)
ror(amount) == Shift(<<"R", "O", "R">>, amount)

\* class Mem: the dataclass constructor stores its five fields and checks nothing.
Mem(base, offset, shift, pre_indexed, write_back) ==
  [t |-> "mem", base |-> base, offset |-> offset, shift |-> shift,
   pre_indexed |-> pre_indexed, write_back |-> write_back]

\* mem(base, offset, shift_=, pre=, wb=): forwards to Mem.
mem(base, offset, shift_, pre, wb) == Mem(base, offset, shift_, pre, wb)

\* A rendering either returns text or raises ValueError.
Ok(s) == [ok |-> TRUE, text |-> s]
Raise == [ok |-> FALSE, text |-> <<>>]

\* f"#{offset}" if the offset is an int, else str(offset); str(None) is "None".
OffsetStr(off) ==
  IF off.t = "int" THEN <<"#">> \o IntStr(off.v)
  ELSE IF off.t = "none" THEN <<"N", "o", "n", "e">>
  ELSE RegStr(off.r)

\* The write-back mark of the pre-indexed form: "!" if self.write_back else "".
WriteBackMark(m) == IF m.write_back THEN <<"!">> ELSE <<>>

\* A Mem.__str__ whose post-indexed branch lost its offset check.
PostIndexedUnchecked(m) == FALSE

\* The post-indexed guard: if self.offset is None: raise ValueError.
PostIndexedRaises(m) == m.offset = None

\* Mem.__str__.
MemStr(m) ==
  LET parts == <<RegStr(m.base)>>
                 \o (IF m.offset # None
                     THEN <<OffsetStr(m.offset)>>
                            \o (IF m.shift # None THEN <<ShiftStr(m.shift)>> ELSE <<>>)
                     ELSE <<>>)
      inside == Join(<<",", " ">>, parts)
  IN IF m.pre_indexed
     THEN Ok(<<"[">> \o inside \o <<"]">> \o WriteBackMark(m))
     ELSE IF PostIndexedRaises(m) THEN Raise
     ELSE LET off0 == OffsetStr(m.offset)
              off == IF m.shift # None THEN off0 \o <<",", " ">> \o ShiftStr(m.shift) ELSE off0
          IN Ok(<<"[">> \o RegStr(m.base) \o <<"]", ",", " ">> \o off)

\* str(o) of one operand of an Instr.
OpndStr(o) ==
  CASE o.t = "reg" -> Ok(RegStr(o.r))
    [] o.t = "imm" -> Ok(ImmStr(o))
    [] o.t = "mem" -> MemStr(o)
    [] o.t = "str" -> Ok(o.s)
    [] o.t = "int" -> Ok(IntStr(o.v))

\* ---------------------------------------------------------- instruction
\* class Instr.
Instr(op, operands, cond, setflags, comment) ==
  [op |-> op, operands |-> operands, cond |-> cond, setflags |-> setflags, comment |-> comment]

\* The operations whose mnemonic never takes the S suffix (the set literal in Instr.__str__).
NoSOps == {<<"L", "D", "R">>, <<"S", "T", "R">>, <<"L", "D", "R", "B">>, <<"S", "T", "R", "B">>,
           <<"L", "D", "M">>, <<"S", "T", "M">>, <<"B">>, <<"B", "L">>, <<"B", "X">>}

\* sfx = "S" if self.setflags and op not in {...} else "".
Sfx(setflags, op) == IF setflags /\ op \notin NoSOps THEN <<"S">> ELSE <<>>

\* mnem = op + cond + sfx.
Mnem(i) == OpsStr(i.op) \o CondStr(i.cond) \o Sfx(i.setflags, OpsStr(i.op))

\* if self.comment: a comment that is None or empty is not rendered.
HasComment(i) == i.comment # None /\ Len(i.comment.s) > 0

\* Instr.__str__.
InstrStr(i) ==
  LET rs == [k \in 1..Len(i.operands) |-> OpndStr(i.operands[k])]
  IN IF \E k \in 1..Len(rs) : ~rs[k].ok THEN Raise
     ELSE LET ops == Join(<<",", " ">>, [k \in 1..Len(rs) |-> rs[k].text])
              line == RStrip(Mnem(i) \o <<" ">> \o ops)
              pad == IF Len(ops) > 0 THEN <<" ">> ELSE <<>>
          IN IF HasComment(i) THEN Ok(line \o pad \o <<";", " ">> \o i.comment.s)
             ELSE Ok(line)

\* ------------------------------------------------- builder: pure methods
\* A call either returns, leaving the new line list, or raises ValueError.
Returns(ls) == [ok |-> TRUE, lines |-> ls]
Raises(ls) == [ok |-> FALSE, lines |-> ls]

\* An emit that grows the list before it renders the record.
emitAppendFirst(ls, op, operands, cond, s, cmt) ==
  LET r == InstrStr(Instr(op, operands, cond, s, cmt))
  IN IF r.ok THEN Returns(Append(ls, r.text)) ELSE Raises(Append(ls, <<>>))

\* Asm.emit: self.lines.append(str(Instr(op, operands, cond, s, cmt))); the argument is
\* rendered before append runs, so a raise in str() leaves the list as it was.
emit(ls, op, operands, cond, s, cmt) ==
  LET r == InstrStr(Instr(op, operands, cond, s, cmt))
  IN IF r.ok THEN Returns(Append(ls, r.text)) ELSE Raises(ls)

\* A label guard that only rejects the empty name.
LabelInvalidEmptyOnly(name) == Len(name) = 0

\* The guard of Asm.label: not name or any(ch.isspace() for ch in name).
LabelInvalid(name) == Len(name) = 0 \/ \E k \in 1..Len(name) : name[k] \in WhiteSpace

\* Asm.label.
label(ls, name) ==
  IF LabelInvalid(name) THEN Raises(ls) ELSE Returns(Append(ls, name \o <<":">>))

\* A directive that puts its line first.
directiveFirst(ls, txt) == Returns(<<txt>> \o ls)

\* Asm.directive.
directive(ls, txt) == Returns(Append(ls, txt))

\* Asm.comment.
comment(ls, txt) == Returns(Append(ls, <<"#", " ">> \o txt))

\* Asm.global_.
global_(ls, name) == Returns(Append(ls, <<".", "g", "l", "o", "b", "a", "l", " ">> \o name))

\* Asm.mov: an int source is wrapped by imm(), anything else is passed on.
mov(ls, rd, src, cond, s, cmt) ==
  emit(ls, "MOV", <<RegVal(rd), IF src.t = "int" THEN imm(src) ELSE src>>, cond, s, cmt)

\* A _dataproc whose (Reg, Shift) branch forwards cond and s like the other two.
dataprocForwarding(ls, op, rd, rn, op2, cond, s) ==
  IF op2.t = "int" THEN emit(ls, op, <<RegVal(rd), RegVal(rn), imm(op2)>>, cond, s, None)
  ELSE IF op2.t = "tuple"
  THEN emit(ls, op, <<RegVal(rd), RegVal(rn),
                      StrVal(RegStr(op2.rm) \o <<",", " ">> \o ShiftStr(op2.sh))>>,
            cond, s, None)
  ELSE emit(ls, op, <<RegVal(rd), RegVal(rn), op2>>, cond, s, None)

\* Asm._dataproc: the three shapes of op2.
dataproc(ls, op, rd, rn, op2, cond, s) ==
  IF op2.t = "int" THEN emit(ls, op, <<RegVal(rd), RegVal(rn), imm(op2)>>, cond, s, None)
  ELSE IF op2.t = "tuple"
  THEN emit(ls, op, <<RegVal(rd), RegVal(rn),
                      StrVal(RegStr(op2.rm) \o <<",", " ">> \o ShiftStr(op2.sh))>>,
            "AL", FALSE, None)
  ELSE emit(ls, op, <<RegVal(rd), RegVal(rn), op2>>, cond, s, None)

\* Asm.add / sub / and_ / orr / eor.
add(ls, rd, rn, op2, cond, s) == dataproc(ls, "ADD", rd, rn, op2, cond, s)
sub(ls, rd, rn, op2, cond, s) == dataproc(ls, "SUB", rd, rn, op2, cond, s)
and_(ls, rd, rn, op2, cond, s) == dataproc(ls, "AND", rd, rn, op2, cond, s)
orr(ls, rd, rn, op2, cond, s) == dataproc(ls, "ORR", rd, rn, op2, cond, s)
eor(ls, rd, rn, op2, cond, s) == dataproc(ls, "EOR", rd, rn, op2, cond, s)

\* Asm.ldr / str / strb.
ldr(ls, rd, address, cond) == emit(ls, "LDR", <<RegVal(rd), address>>, cond, FALSE, None)
str(ls, rd, address, cond) == emit(ls, "STR", <<RegVal(rd), address>>, cond, FALSE, None)
strb(ls, rd, address, cond) == emit(ls, "STRB", <<RegVal(rd), address>>, cond, FALSE, None)

\* Asm.b / bl / bx; bl and bx fall back to B when the vocabulary lacks their tag.
b(ls, target, cond) == emit(ls, "B", <<StrVal(target)>>, cond, FALSE, None)
bl(ls, target, cond) ==
  emit(ls, IF "BL" \in Ops THEN "BL" ELSE "B", <<StrVal(target)>>, cond, FALSE, None)
bx(ls, rm, cond) ==
  emit(ls, IF "BX" \in Ops THEN "BX" ELSE "B", <<RegVal(rm)>>, cond, FALSE, None)

\* reglist = "{" + ", ".join(str(r) for r in regs) + "}".
RegList(regs) ==
  <<"{">> \o Join(<<",", " ">>, [k \in 1..Len(regs) |-> RegStr(regs[k])]) \o <<"}">>

\* The operation tag each of push and pop hands to emit.
PushOp == "PUSH"
\* A pop that hands emit its own tag.
PopOpOwn == "POP"
PopOp == "PUSH"

\* Asm.push / Asm.pop.
push(ls, regs, cond) == emit(ls, PushOp, <<StrVal(RegList(regs))>>, cond, FALSE, None)
pop(ls, regs, cond) == emit(ls, PopOp, <<StrVal(RegList(regs))>>, cond, FALSE, None)

\* Asm.svc.
svc(ls) == emit(ls, "SVC", <<StrVal(<<"#", "0">>)>>, "AL", FALSE, None)

\* Asm.text: join with newlines, plus one newline unless the list is empty or its last
\* line already ends in one.
text(ls) ==
  Join(<<"\n">>, ls)
    \o (IF Len(ls) > 0 /\ ~EndsWithNewline(ls[Len(ls)]) THEN <<"\n">> ELSE <<>>)

\* Asm.clear.
clear(ls) == <<>>

\* Asm.initial: directive, global_, label on a fresh Asm.
initial ==
  label(global_(directive(<<>>, <<".", "s", "e", "c", "t", "i", "o", "n", " ", ".", "t", "e", "x", "t">>).lines,
                <<"_", "s", "t", "a", "r", "t">>).lines,
        <<"_", "s", "t", "a", "r", "t">>).lines

\* ----------------------------------------------------------------- state
VARIABLES
  lines,     \* Asm.lines of the builder under test
  call,      \* the last call made on the builder: its name, arguments and outcome
  margs,     \* the arguments a Mem is about to be built from
  mstage,    \* "args" -> "constructed" -> "rendered"
  mobj,      \* the Mem object once constructed
  mres,      \* the outcome of str(mobj)
  instr,     \* an Instr record
  rendered,  \* the outcome of str(instr)
  pc,        \* position inside print_asm
  txt,       \* print_asm's text argument
  n_size,    \* print_asm's n_size
  idx,       \* print_asm's loop variable idx (None while unbound)
  prog       \* the lines of the Asm print_asm is building

vars == <<lines, call, margs, mstage, mobj, mres, instr, rendered, pc, txt, n_size, idx, prog>>

asmVars == <<lines, call>>
memVars == <<margs, mstage, mobj, mres>>
instrVars == <<instr, rendered>>
printVars == <<pc, txt, n_size, idx, prog>>

\* The parts of the state a specification does not exercise stay at these values.
AsmIdle == lines = <<>> /\ call = [name |-> "init", ok |-> TRUE, args |-> None]
MemIdle == margs = None /\ mstage = "idle" /\ mobj = None /\ mres = None
InstrIdle == instr = None /\ rendered = None
PrintIdle == pc = "idle" /\ txt = <<>> /\ n_size = 0 /\ idx = None /\ prog = <<>>

\* ------------------------------------------------------- builder: inputs
\* A post-indexed Mem without an offset (its rendering raises).
BadMem == Mem("r1", None, None, FALSE, FALSE)

\* Second operand of the arithmetic/logical helpers in its (Reg, Shift) shape.
Pair(rm, sh) == [t |-> "tuple", rm |-> rm, sh |-> sh]

\* Inputs of the call sequences (Spec): one or two argument lists per method, a
\* failing one for each method that can fail.
SeqEmitCalls ==
  { <<"LDRB", <<RegVal("r0"), Mem("r1", RegVal("r2"), lsl(2), TRUE, TRUE)>>, "NE", TRUE, StrVal(<<"c">>)>>,
    <<"STR", <<RegVal("r0"), BadMem>>, "AL", FALSE, None>> }
SeqLabelNames == {<<"l", "1">>, <<"a", " ", "b">>}
SeqDirectiveTexts == {<<>>, <<".", "x", "\n">>}
SeqAddresses == {Mem("sp", IntVal(4), None, FALSE, FALSE), BadMem}

\* Inputs of the single calls (SpecCall).
CondsUsed == {"AL", "EQ", "LE"}
EmitCalls ==
  SeqEmitCalls \cup
  { <<"NOP", <<>>, "AL", FALSE, None>>,
    <<"NOP", <<>>, "AL", FALSE, StrVal(<<"c">>)>>,
    <<"NOP", <<>>, "AL", TRUE, StrVal(<<>>)>>,
    <<"B", <<StrVal(<<"l", "1", " ">>)>>, "AL", TRUE, None>>,
    <<"MUL", <<RegVal("r0"), RegVal("r1"), RegVal("r2")>>, "GT", TRUE, None>>,
    <<"LDR", <<RegVal("r0"), BadMem>>, "EQ", FALSE, StrVal(<<"c">>)>> }
NameChars == {"a", "1", " ", "\t", "\n"}
LabelNames ==
  {<<>>} \cup {<<c>> : c \in NameChars} \cup {<<c, d>> : c \in NameChars, d \in NameChars}
    \cup {<<"a", " ", "b">>, <<"l", "o", "o", "p", "1">>}
DirectiveTexts == SeqDirectiveTexts \cup {<<".", "d", "a", "t", "a">>}
CommentTexts == {<<"h", "i">>, <<>>}
GlobalNames == {<<"f">>, <<"_", "s", "t", "a", "r", "t">>}
Op2s == {IntVal(4), IntVal(-1), Imm(4), RegVal("r2"), Pair("r2", lsl(1)), Pair("r3", ror(12))}
MovSrcs == {IntVal(-5), Imm(7), RegVal("r1")}
Addresses ==
  SeqAddresses \cup {Mem("r1", None, None, TRUE, FALSE), Mem("r1", None, None, TRUE, TRUE),
                     Mem("r1", RegVal("r2"), asr(3), FALSE, TRUE)}
Targets == {<<"l", "1">>, <<"_", "s", "t", "a", "r", "t">>}
RegLists == {<<>>, <<"r0">>, <<"r4", "lr">>, <<"lr", "r4">>, <<"r0", "r1", "pc">>}

\* Line lists a single call is made on: a fresh builder, and one holding a line.
StartLists == {<<>>, directive(<<>>, <<".", "t", "e", "x", "t">>).lines}

\* ------------------------------------------------------ builder: actions
\* One call on the builder: the list becomes what the method leaves, and the call is
\* recorded. The model stops growing the list at MaxLines.
Call(name, args, out) ==
  \E o \in {out} :
    /\ o.ok => Len(lines) < MaxLines
    /\ lines' = o.lines
    /\ call' = [name |-> name, ok |-> o.ok, args |-> args]
    /\ UNCHANGED <<memVars, instrVars, printVars>>

Emit(calls) ==
  \E a \in calls :
    Call("emit", [op |-> a[1], operands |-> a[2], cond |-> a[3], s |-> a[4], cmt |-> a[5]],
         emit(lines, a[1], a[2], a[3], a[4], a[5]))

Label(names) == \E name \in names : Call("label", [name |-> name], label(lines, name))

Directive(texts) == \E t \in texts : Call("directive", [text |-> t], directive(lines, t))

Comment(texts) == \E t \in texts : Call("comment", [text |-> t], comment(lines, t))

Global(names) == \E name \in names : Call("global_", [name |-> name], global_(lines, name))

Mov(srcs, conds, flags) ==
  \E src \in srcs, cond \in conds, s \in flags :
    Call("mov", [rd |-> "r0", src |-> src, cond |-> cond, s |-> s],
         mov(lines, "r0", src, cond, s, None))

DataprocArgs(op2, cond, s) == [rd |-> "r0", rn |-> "r1", op2 |-> op2, cond |-> cond, s |-> s]

Add(op2s, conds, flags) ==
  \E op2 \in op2s, cond \in conds, s \in flags :
    Call("add", DataprocArgs(op2, cond, s), add(lines, "r0", "r1", op2, cond, s))

Sub(op2s, conds, flags) ==
  \E op2 \in op2s, cond \in conds, s \in flags :
    Call("sub", DataprocArgs(op2, cond, s), sub(lines, "r0", "r1", op2, cond, s))

And(op2s, conds, flags) ==
  \E op2 \in op2s, cond \in conds, s \in flags :
    Call("and_", DataprocArgs(op2, cond, s), and_(lines, "r0", "r1", op2, cond, s))

Orr(op2s, conds, flags) ==
  \E op2 \in op2s, cond \in conds, s \in flags :
    Call("orr", DataprocArgs(op2, cond, s), orr(lines, "r0", "r1", op2, cond, s))

Eor(op2s, conds, flags) ==
  \E op2 \in op2s, cond \in conds, s \in flags :
    Call("eor", DataprocArgs(op2, cond, s), eor(lines, "r0", "r1", op2, cond, s))

Ldr(addresses, conds) ==
  \E address \in addresses, cond \in conds :
    Call("ldr", [rd |-> "r0", address |-> address, cond |-> cond], ldr(lines, "r0", address, cond))

Str(addresses, conds) ==
  \E address \in addresses, cond \in conds :
    Call("str", [rd |-> "r0", address |-> address, cond |-> cond], str(lines, "r0", address, cond))

Strb(addresses, conds) ==
  \E address \in addresses, cond \in conds :
    Call("strb", [rd |-> "r0", address |-> address, cond |-> cond], strb(lines, "r0", address, cond))

B(targets, conds) ==
  \E t \in targets, cond \in conds : Call("b", [target |-> t, cond |-> cond], b(lines, t, cond))

Bl(targets, conds) ==
  \E t \in targets, cond \in conds : Call("bl", [target |-> t, cond |-> cond], bl(lines, t, cond))

Bx(conds) == \E cond \in conds : Call("bx", [rm |-> "lr", cond |-> cond], bx(lines, "lr", cond))

Push(reglists, conds) ==
  \E regs \in reglists, cond \in conds :
    Call("push", [regs |-> regs, cond |-> cond], push(lines, regs, cond))

Pop(reglists, conds) ==
  \E regs \in reglists, cond \in conds :
    Call("pop", [regs |-> regs, cond |-> cond], pop(lines, regs, cond))

Svc == Call("svc", None, svc(lines))

\* A text() that drains the list it flattens.
TextDraining ==
  /\ lines' = <<>>
  /\ call' = [name |-> "text", ok |-> TRUE, args |-> [result |-> text(lines)]]
  /\ UNCHANGED <<memVars, instrVars, printVars>>

\* Asm.text: returns the flattened text and assigns nothing.
Text ==
  /\ lines' = lines
  /\ call' = [name |-> "text", ok |-> TRUE, args |-> [result |-> text(lines)]]
  /\ UNCHANGED <<memVars, instrVars, printVars>>

\* Asm.clear.
Clear ==
  /\ lines' = clear(lines)
  /\ call' = [name |-> "clear", ok |-> TRUE, args |-> None]
  /\ UNCHANGED <<memVars, instrVars, printVars>>

\* Asm(): a fresh builder with an empty line list.
Init == AsmIdle /\ MemIdle /\ InstrIdle /\ PrintIdle

\* Any sequence of calls on one builder.
Next ==
  \/ Emit(SeqEmitCalls)
  \/ Label(SeqLabelNames)
  \/ Directive(SeqDirectiveTexts)
  \/ Comment({<<"h", "i">>})
  \/ Global({<<"f">>})
  \/ Mov({IntVal(-5)}, {"AL"}, {TRUE})
  \/ Add({IntVal(4)}, {"EQ"}, {TRUE})
  \/ Sub({Pair("r2", lsl(1))}, {"EQ"}, {TRUE})
  \/ And({RegVal("r2")}, {"AL"}, {FALSE})
  \/ Orr({Imm(4)}, {"LE"}, {FALSE})
  \/ Eor({RegVal("r2")}, {"AL"}, {TRUE})
  \/ Ldr(SeqAddresses, {"AL"})
  \/ Str(SeqAddresses, {"EQ"})
  \/ Strb(SeqAddresses, {"AL"})
  \/ B({<<"l", "1">>}, {"AL"})
  \/ Bl({<<"l", "1">>}, {"AL"})
  \/ Bx({"AL"})
  \/ Push({<<"r4", "lr">>}, {"AL"})
  \/ Pop({<<"r4", "lr">>}, {"AL"})
  \/ Svc
  \/ Text
  \/ Clear

Spec == Init /\ [][Next]_vars

\* One call, with the full input sets, on a builder holding one of StartLists.
Fresh == call.name = "init"

InitCall ==
  /\ lines \in StartLists
  /\ call = [name |-> "init", ok |-> TRUE, args |-> None]
  /\ MemIdle /\ InstrIdle /\ PrintIdle

NextCall ==
  \/ Fresh /\ Emit(EmitCalls)
  \/ Fresh /\ Label(LabelNames)
  \/ Fresh /\ Directive(DirectiveTexts)
  \/ Fresh /\ Comment(CommentTexts)
  \/ Fresh /\ Global(GlobalNames)
  \/ Fresh /\ Mov(MovSrcs, CondsUsed, BOOLEAN)
  \/ Fresh /\ Add(Op2s, CondsUsed, BOOLEAN)
  \/ Fresh /\ Sub(Op2s, CondsUsed, BOOLEAN)
  \/ Fresh /\ And(Op2s, CondsUsed, BOOLEAN)
  \/ Fresh /\ Orr(Op2s, CondsUsed, BOOLEAN)
  \/ Fresh /\ Eor(Op2s, CondsUsed, BOOLEAN)
  \/ Fresh /\ Ldr(Addresses, CondsUsed)
  \/ Fresh /\ Str(Addresses, CondsUsed)
  \/ Fresh /\ Strb(Addresses, CondsUsed)
  \/ Fresh /\ B(Targets, CondsUsed)
  \/ Fresh /\ Bl(Targets, CondsUsed)
  \/ Fresh /\ Bx(CondsUsed)
  \/ Fresh /\ Push(RegLists, CondsUsed)
  \/ Fresh /\ Pop(RegLists, CondsUsed)
  \/ Fresh /\ Svc
  \/ Fresh /\ Text
  \/ Fresh /\ Clear

SpecCall == InitCall /\ [][NextCall]_vars

\* ------------------------------------------------ memory operands alone
\* Arguments a Mem is built from.
MemBases == {"r0", "sp"}
MemOffsets == {None, IntVal(0), IntVal(4), IntVal(-8), RegVal("r1")}
MemShifts == {None, lsl(2)}
MemArgs ==
  [base : MemBases, offset : MemOffsets, shift : MemShifts, pre : BOOLEAN, wb : BOOLEAN]

InitMem ==
  /\ margs \in MemArgs
  /\ mstage = "args" /\ mobj = None /\ mres = None
  /\ AsmIdle /\ InstrIdle /\ PrintIdle

\* Mem(base, offset, shift, pre_indexed, write_back).
MemConstruct ==
  /\ mstage = "args"
  /\ mobj' = Mem(margs.base, margs.offset, margs.shift, margs.pre, margs.wb)
  /\ mstage' = "constructed"
  /\ UNCHANGED <<margs, mres, asmVars, instrVars, printVars>>

\* mem(base, offset, shift_=shift, pre=pre, wb=wb).
MemHelper ==
  /\ mstage = "args"
  /\ mobj' = mem(margs.base, margs.offset, margs.shift, margs.pre, margs.wb)
  /\ mstage' = "constructed"
  /\ UNCHANGED <<margs, mres, asmVars, instrVars, printVars>>

\* str(m).
MemRender ==
  /\ mstage = "constructed"
  /\ mres' = MemStr(mobj)
  /\ mstage' = "rendered"
  /\ UNCHANGED <<margs, mobj, asmVars, instrVars, printVars>>

NextMem == MemConstruct \/ MemHelper \/ MemRender

SpecMem == InitMem /\ [][NextMem]_vars

\* --------------------------------------------- instruction records alone
\* Operand tuples of the records rendered.
InstrOperands ==
  {<<>>, <<RegVal("r0"), Mem("r1", IntVal(4), None, TRUE, TRUE)>>, <<StrVal(<<"l", "1">>)>>}
InstrComments == {None, StrVal(<<"c">>)}

InitInstr ==
  /\ instr \in {Instr(op, opnds, cond, s, cmt) :
                  op \in Ops, opnds \in InstrOperands, cond \in Cond, s \in BOOLEAN,
                  cmt \in InstrComments}
  /\ rendered = None
  /\ AsmIdle /\ MemIdle /\ PrintIdle

\* str(instr).
InstrRender ==
  /\ rendered = None
  /\ rendered' = InstrStr(instr)
  /\ UNCHANGED <<instr, asmVars, memVars, printVars>>

NextInstr == InstrRender

SpecInstr == InitInstr /\ [][NextInstr]_vars

\* -------------------------------------------------------------- print_asm
\* Characters of the texts printed, and ord() on them.
TextChars == {"a", "Z"}
Ord(c) == CASE c = "a" -> 97 [] c = "Z" -> 90 [] c = "\n" -> 10

\* All texts of at most n characters.
RECURSIVE TextsUpTo(_)
TextsUpTo(n) ==
  IF n = 0 THEN {<<>>}
  ELSE LET shorter == TextsUpTo(n - 1)
       IN shorter \cup {Append(t, c) : t \in shorter, c \in TextChars}

\* n_size = int(((len(text) + 15) / 16) * 16): "/" is true division, exact for a
\* divisor that is a power of two, so the quotient is (len + 15)/16 as a fraction,
\* the product is its numerator, and int() has nothing to truncate.
NSize(len) == ((len + 15) * 16) \div 16

\* Syscall.write(asm, size).
SyscallWrite(ls, size) ==
  LET l1 == mov(ls, "r7", IntVal(4), "AL", FALSE, None).lines
      l2 == mov(l1, "r0", IntVal(1), "AL", FALSE, None).lines
      l3 == mov(l2, "r1", RegVal("sp"), "AL", FALSE, None).lines
      l4 == mov(l3, "r2", IntVal(size), "AL", FALSE, None).lines
  IN svc(l4).lines

\* Syscall.exit(asm).
SyscallExit(ls) ==
  LET l1 == mov(ls, "r7", IntVal(1), "AL", FALSE, None).lines
      l2 == mov(l1, "r0", IntVal(1), "AL", FALSE, None).lines
  IN svc(l2).lines

InitPrint ==
  /\ txt \in TextsUpTo(MaxText)
  /\ pc = "start" /\ n_size = 0 /\ idx = None /\ prog = <<>>
  /\ AsmIdle /\ MemIdle /\ InstrIdle

\* print_asm, from its entry to the comment naming the allocated stack.
PrintStart ==
  /\ pc = "start"
  /\ n_size' = NSize(Len(txt))
  /\ prog' =
       LET l1 == mov(initial, "r3", RegVal("sp"), "AL", FALSE, None).lines
           l2 == sub(l1, "sp", "sp", IntVal(n_size'), "AL", FALSE).lines
       IN comment(l2, <<"A", "l", "l", "o", "c", "a", "t", "e", "d", " ", "S", "t", "a", "c", "k", " ", ":", " ">>
                        \o IntStr(n_size')).lines
  /\ pc' = "loop"
  /\ UNCHANGED <<txt, idx, asmVars, memVars, instrVars>>

\* The index the for loop binds next.
NextIdx == IF idx = None THEN 0 ELSE idx.v + 1

\* One iteration of for idx, t in enumerate(text).
PrintLoop ==
  /\ pc = "loop"
  /\ NextIdx < Len(txt)
  /\ idx' = IntVal(NextIdx)
  /\ prog' =
       LET l1 == mov(prog, "r1", IntVal(Ord(txt[NextIdx + 1])), "AL", FALSE, None).lines
       IN strb(l1, "r1", Mem("sp", idx', None, TRUE, FALSE), "AL").lines
  /\ UNCHANGED <<pc, txt, n_size, asmVars, memVars, instrVars>>

\* The two statements after the loop; idx + 1 raises when the loop never bound idx.
PrintNewline ==
  /\ pc = "loop"
  /\ NextIdx >= Len(txt)
  /\ LET l1 == mov(prog, "r1", IntVal(Ord("\n")), "AL", FALSE, None).lines
     IN IF idx = None
        THEN prog' = l1 /\ pc' = "raised"
        ELSE /\ prog' = strb(l1, "r1", Mem("sp", IntVal(idx.v + 1), None, TRUE, FALSE), "AL").lines
             /\ pc' = "write"
  /\ UNCHANGED <<txt, n_size, idx, asmVars, memVars, instrVars>>

\* Syscall.write(asm, len(text) + 1).
PrintWrite ==
  /\ pc = "write"
  /\ prog' = SyscallWrite(prog, Len(txt) + 1)
  /\ pc' = "dealloc"
  /\ UNCHANGED <<txt, n_size, idx, asmVars, memVars, instrVars>>

\* The comment and the add that gives the stack back.
PrintDealloc ==
  /\ pc = "dealloc"
  /\ prog' =
       LET l1 == comment(prog, <<"D", "e", "a", "l", "l", "o", "c", "a", "t", "e", "d", " ", "s", "t", "a", "c", "k">>).lines
       IN add(l1, "sp", "sp", IntVal(n_size), "AL", FALSE).lines
  /\ pc' = "exit"
  /\ UNCHANGED <<txt, n_size, idx, asmVars, memVars, instrVars>>

\* Syscall.exit(asm); return asm.
PrintExit ==
  /\ pc = "exit"
  /\ prog' = SyscallExit(prog)
  /\ pc' = "done"
  /\ UNCHANGED <<txt, n_size, idx, asmVars, memVars, instrVars>>

NextPrint == PrintStart \/ PrintLoop \/ PrintNewline \/ PrintWrite \/ PrintDealloc \/ PrintExit

SpecPrint == InitPrint /\ [][NextPrint]_vars

\* ---------------------------------------------------------------- claims
\* The calls that append a line when they return.
AppendingCalls ==
  {"emit", "label", "directive", "comment", "global_", "mov", "add", "sub", "and_", "orr",
   "eor", "ldr", "str", "strb", "b", "bl", "bx", "push", "pop", "svc"}

Last(ls) == ls[Len(ls)]

\* C1: in any sequence of builder calls, every returning appending call leaves the
\* old list as a prefix and adds exactly one line at the end, no other call adds a
\* line, and after clear the list is empty and text() of it is the empty string; so
\* the list is the lines of the returning calls since the last clear, in call order.
C1_CallOrderPreserved ==
  [][ /\ (call'.name \in AppendingCalls /\ call'.ok)
          => (Len(lines') = Len(lines) + 1 /\ SubSeq(lines', 1, Len(lines)) = lines)
      /\ (call'.name \notin AppendingCalls /\ call'.name # "clear") => lines' = lines
      /\ call'.name = "clear" => (lines' = <<>> /\ text(lines') = <<>>) ]_vars

\* C1 witness: two different lines accumulated, the second by a returning call.
C1_Witness ==
  /\ Len(lines) = 2 /\ lines[1] # lines[2]
  /\ call.name = "directive" /\ call.ok

\* C2: a call that raises leaves the line list exactly as it was, and the returning
\* appending call that follows it appends after the lines accumulated before.
C2_FailureLeavesLines ==
  [][ /\ ~call'.ok => lines' = lines
      /\ (~call.ok /\ call'.ok /\ call'.name \in AppendingCalls)
           => (Len(lines') = Len(lines) + 1 /\ SubSeq(lines', 1, Len(lines)) = lines) ]_vars

\* C2 witness: a strb given a post-indexed operand without offset raised on a builder
\* that holds lines.
C2_Witness ==
  /\ call.name = "strb" /\ ~call.ok
  /\ ~call.args.address.pre_indexed /\ call.args.address.offset = None
  /\ Len(lines) >= 1

\* C3: label(name) raises exactly when name is empty or holds a whitespace character,
\* leaving the list alone; for every other name it returns having appended "<name>:".
C3_LabelValidity ==
  [][ call'.name = "label" =>
        LET name == call'.args.name
            bad == name = <<>> \/ \E k \in DOMAIN name : name[k] \in {" ", "\t", "\n", "\r"}
        IN /\ ~call'.ok <=> bad
           /\ bad => lines' = lines
           /\ ~bad => lines' = Append(lines, name \o <<":">>) ]_vars

\* C3 witness: label("a b") raised.
C3_Witness == call.name = "label" /\ ~call.ok /\ call.args.name = <<"a", " ", "b">>

C5_NoBangWithoutOffset ==
  (mstage = "rendered" /\ margs.pre) =>
     /\ mres.ok
     /\ margs.offset = None => mres.text = <<"[">> \o RegStr(margs.base) \o <<"]">>
     /\ Last(mres.text) = "!" => (margs.offset # None /\ margs.wb)

\* The exclusion set as the claim describes it: the load/store family, load/store
\* multiple, and the branches.
ClaimedNoS == {"LDR", "STR", "LDRB", "STRB", "LDRH", "LDRSH", "LDM", "STM", "B", "BL", "BX"}

\* The mnemonic of a rendered line: its characters before the first space or ";".
RECURSIVE FirstWord(_)
FirstWord(s) ==
  IF Len(s) = 0 \/ Head(s) \in {" ", ";"} THEN <<>> ELSE <<Head(s)>> \o FirstWord(Tail(s))

\* C6: rendered with setflags set, an operation of the exclusion set never gets the S
\* and its mnemonic is <OP><COND>; every other operation's mnemonic is <OP><COND>S.
C6_SuffixByFamily ==
  (rendered # None /\ instr.setflags) =>
     /\ rendered.ok
     /\ FirstWord(rendered.text)
          = OpsStr(instr.op) \o CondStr(instr.cond)
              \o (IF instr.op \in ClaimedNoS THEN <<>> ELSE <<"S">>)

\* C7: text() leaves the line list as it is, a second text() right after it returns
\* the same text, and after text() every call of the builder can still be made.
C7_TextIsPure ==
  /\ [][ call'.name = "text" =>
           /\ lines' = lines
           /\ call.name = "text" => call'.args.result = call.args.result ]_vars
  /\ [](call.name = "text" =>
          /\ ENABLED Clear
          /\ ENABLED Text
          /\ Len(lines) < MaxLines =>
               /\ ENABLED Emit(SeqEmitCalls)
               /\ ENABLED Label(SeqLabelNames)
               /\ ENABLED Directive(SeqDirectiveTexts)
               /\ ENABLED Mov({IntVal(-5)}, {"AL"}, {TRUE})
               /\ ENABLED Push({<<"r4", "lr">>}, {"AL"})
               /\ ENABLED Svc)

\* C7 witness: text() was called on a builder holding two lines.
C7_Witness == call.name = "text" /\ Len(lines) = 2 /\ Len(call.args.result) > 0

\* The operation each arithmetic/logical helper emits.
HelperOp(name) ==
  CASE name = "add" -> <<"A", "D", "D">>
    [] name = "sub" -> <<"S", "U", "B">>
    [] name = "and_" -> <<"A", "N", "D">>
    [] name = "orr" -> <<"O", "R", "R">>
    [] name = "eor" -> <<"E", "O", "R">>

\* C8: add/sub/and_/orr/eor with an immediate or a register as op2 emit
\* "<OP><COND><S?> Rd, Rn, <op2>" with the requested cond and s; with a (Reg, Shift)
\* pair they emit "<OP> Rd, Rn, <Rm>, <KIND> #<amount>" whatever cond and s were.
C8_DataprocForms ==
  call.name \in {"add", "sub", "and_", "orr", "eor"} =>
    LET a == call.args
        head == <<" ">> \o RegStr(a.rd) \o <<",", " ">> \o RegStr(a.rn) \o <<",", " ">>
    IN /\ call.ok
       /\ Len(lines) >= 1
       /\ Last(lines) =
            IF a.op2.t = "tuple"
            THEN HelperOp(call.name) \o head \o RegStr(a.op2.rm) \o <<",", " ">>
                   \o a.op2.sh.kind \o <<" ", "#">> \o IntStr(a.op2.sh.amount)
            ELSE HelperOp(call.name) \o CondStr(a.cond) \o (IF a.s THEN <<"S">> ELSE <<>>) \o head
                   \o (CASE a.op2.t = "int" -> <<"#">> \o IntStr(a.op2.v)
                         [] a.op2.t = "imm" -> <<"#">> \o IntStr(a.op2.value)
                         [] a.op2.t = "reg" -> RegStr(a.op2.r))

\* C8 witness: sub with a (Reg, Shift) pair, a condition and s requested.
C8_Witness ==
  /\ call.name = "sub" /\ call.args.op2.t = "tuple"
  /\ call.args.cond = "EQ" /\ call.args.s

\* C9: pop(regs, cond) appends the line push(regs, cond) appends:
\* "PUSH<COND> {R1, R2, ...}" with the registers in the given order.
C9_PopRendersAsPush ==
  call.name = "pop" =>
    /\ call.ok
    /\ Len(lines) >= 1
    /\ Last(lines) = Last(push(<<>>, call.args.regs, call.args.cond).lines)
    /\ Last(lines) = <<"P", "U", "S", "H">> \o CondStr(call.args.cond) \o <<" ", "{">>
                       \o Join(<<",", " ">>, [k \in DOMAIN call.args.regs |-> RegStr(call.args.regs[k])])
                       \o <<"}">>

\* C9 witness: pop([r4, lr], cond=EQ) was called.
C9_Witness == call.name = "pop" /\ call.args.regs = <<"r4", "lr">> /\ call.args.cond = "EQ"

\* len rounded up to the next multiple of 16.
RoundUp16(len) == ((len + 15) \div 16) * 16

\* C10: the program print_asm returns allocates with SUB SP, SP, #n and gives back
\* with ADD SP, SP, #n, n being len(text) rounded up to the next multiple of 16.
C10_StackRoundedTo16 ==
  pc = "done" =>
    LET n == RoundUp16(Len(txt))
        imm16 == <<" ", "S", "P", ",", " ", "S", "P", ",", " ", "#">> \o IntStr(n)
    IN /\ n_size % 16 = 0
       /\ prog[5] = <<"S", "U", "B">> \o imm16
       /\ prog[Len(prog) - 3] = <<"A", "D", "D">> \o imm16
====
